---- MODULE Spec2Model ----
(***************************************************************************)
(* Model of the codedefender CLI: the debug-symbol table builder and name  *)
(* disambiguator of cli/src/pdb.rs (parse_pdb_impl), the blob encoder of   *)
(* parse_pdb and the reader of its blob, the symbol resolver of            *)
(* cli/src/main.rs (resolve_symbols, is_valid_rva) and the workflow of     *)
(* main (version check, uploads, the two polling loops, resolve every      *)
(* profile, merge the macro groups, submit).                               *)
(*                                                                         *)
(* Text is modelled as a sequence of code points, so that the ordering of  *)
(* Rust's String (byte-wise lexicographic) and the hexadecimal formatting  *)
(* of the duplicate counter are computed, not assumed.                     *)
(***************************************************************************)
EXTENDS Integers, Sequences, FiniteSets, TLC

VARIABLES
    pc,           \* position of the modelled function
    functions,    \* pdb.rs: HashMap<u32, (String, bool)>, address -> (name, noreturn)
    procNames,    \* history: address -> demangled names declared by procedure symbols
    procFlags,    \* history: address -> never-return flags declared by procedure symbols
    declared,     \* history: the resolvable addresses that procedure symbols or public
                  \* function symbols declared
    failed,       \* history: an Err of modules.next() or of symbols.next() ended a loop
    order,        \* pdb.rs: the order in which `for .. in functions` visits the keys
    name_counts,  \* pdb.rs: HashMap<String, u32>
    funcs,        \* pdb.rs: Vec<DebugSymbolInfo>
    compressed,   \* pdb.rs: what parse_pdb returned, <<>> for None, <<bytes>> for Some
    decoded,      \* the reader of the blob: what it decoded, <<>> before
    config,       \* main.rs: YamlConfig read from the configuration file
    analysis,     \* main.rs: Option<AnalysisResult>, <<>> for None, <<a>> for Some(a)
    cdconfig,     \* main.rs: the Config under construction
    macro_index,  \* main.rs: position of `for macro_profile in &analysis.macros`
    issued,       \* history: the requests made to the remote service
    observed,     \* history: the statuses the polls of the unit of work being polled
                  \* returned, emptied when the analysis result has been fetched
    timed_out,    \* history: the phase whose timeout was seen expired, "" if none
    submitted,    \* history: the Config handed to api::defend, <<>> before
    outcome,      \* what main returned: "running", "Ok", an Err message, "panic"
    symbols,      \* resolve_symbols: its argument
    resolved      \* resolve_symbols: its result, <<>> before the call

pdbVars == <<functions, procNames, procFlags, declared, failed, order, name_counts, funcs>>

codecVars == <<compressed, decoded>>

mainVars ==
    <<config, analysis, cdconfig, macro_index, issued, observed, timed_out, submitted,
      outcome>>

resolveVars == <<symbols, resolved>>

vars == <<pc, pdbVars, codecVars, mainVars, resolveVars>>

----------------------------------------------------------------------------
(* Bounds *)

\* procedure/public symbols are declared at offsets 1..NumAddrs (resolvable)
\* and at offset NumAddrs + 1 (not translatable to an address)
NumAddrs == 2

\* the name disambiguator is run over every table of at most MaxPermute
\* addresses, in every iteration order
MaxPermute == 3

\* and over the tables of up to MaxSame addresses that all carry one name, in
\* the rotations of the ascending and of the descending address order
MaxSame == 17

\* resolve_symbols is run on at most MaxRefs references, against at most
\* MaxFunctions accepted and MaxRejects rejected functions
MaxRefs == 2

MaxFunctions == 2

MaxRejects == 2

\* main is run on at most MaxProfiles configured profiles and MaxMacros macro
\* groups
MaxProfiles == 2

MaxMacros == 2

\* the blob encoder is run on every sequence of at most MaxInfos records
MaxInfos == 2

\* the remote service answers Processing to at most MaxProcessing polls of one
\* unit of work
MaxProcessing == 1

----------------------------------------------------------------------------
(* Text *)

\* "Dup"
Dup == <<68, 117, 112>>

\* "Dup_1"
Dup_1 == <<68, 117, 112, 95, 49>>

\* "_Z5Alphav", the Itanium mangling of Alpha()
MangledAlpha == <<95, 90, 53, 65, 108, 112, 104, 97, 118>>

\* "Alpha()"
Alpha == <<65, 108, 112, 104, 97, 40, 41>>

\* raw symbol names found in the debug-info container
RawNames == {Dup, Dup_1, MangledAlpha}

\* Name::from(&mangled).try_demangle(DemangleOptions::complete()).to_string():
\* a name that is not mangled is returned as it is
Demangle(raw) == IF raw = MangledAlpha THEN Alpha ELSE raw

Min(a, b) == IF a < b THEN a ELSE b

\* String's `<`: byte-wise lexicographic, a proper prefix is smaller
LexLess(a, b) ==
    \E i \in 1..(Min(Len(a), Len(b)) + 1) :
        /\ \A j \in 1..(i - 1) : a[j] = b[j]
        /\ \/ i > Len(a) /\ i <= Len(b)
           \/ i <= Len(a) /\ i <= Len(b) /\ a[i] < b[i]

----------------------------------------------------------------------------
(* parse_pdb_impl: the symbol table builder *)

NoRva == -1

Offsets == 1..(NumAddrs + 1)

\* data.offset.to_rva(&address_map): Some(rva) or None
to_rva(offset) == IF offset \in 1..NumAddrs THEN offset ELSE NoRva

\* Option<Rva>::unwrap_or_default(): Rva(0) for None
unwrap_or_default(rva) == IF rva = NoRva THEN 0 ELSE rva

\* the addresses the table can hold
Rvas == 0..NumAddrs

EmptyMap == [x \in {} |-> 0]

\* MergeProcedure with the comparison reversed: the larger name is kept
MergeProcedureLargest(e, demangled, never) ==
    [name     |-> IF LexLess(e.name, demangled) THEN demangled ELSE e.name,
     noreturn |-> e.noreturn \/ never]

\* Entry::Occupied of the procedure pass
MergeProcedure(e, demangled, never) ==
    [name     |-> IF LexLess(demangled, e.name) THEN demangled ELSE e.name,
     noreturn |-> e.noreturn \/ never]

\* MergePublic storing the public symbol's default, false, into noreturn
MergePublicResets(e, demangled) ==
    [name     |-> IF LexLess(demangled, e.name) THEN demangled ELSE e.name,
     noreturn |-> FALSE]

\* Entry::Occupied of the public pass
MergePublic(e, demangled) ==
    [name     |-> IF LexLess(demangled, e.name) THEN demangled ELSE e.name,
     noreturn |-> e.noreturn]

\* functions.entry(rva.0) of the procedure pass
InsertProcedure(table, rva, demangled, never) ==
    IF rva \in DOMAIN table
    THEN [table EXCEPT ![rva] = MergeProcedure(@, demangled, never)]
    ELSE table @@ (rva :> [name |-> demangled, noreturn |-> never])

\* functions.entry(rva.0) of the public pass
InsertPublic(table, rva, demangled) ==
    IF rva \in DOMAIN table
    THEN [table EXCEPT ![rva] = MergePublic(@, demangled)]
    ELSE table @@ (rva :> [name |-> demangled, noreturn |-> FALSE])

\* the variables of main and of resolve_symbols, unused by parse_pdb_impl
IdleMain ==
    /\ config = [version |-> "", profiles |-> <<>>]
    /\ analysis = <<>>
    /\ cdconfig = [profiles |-> <<>>]
    /\ macro_index = 0
    /\ issued = {}
    /\ observed = <<>>
    /\ timed_out = ""
    /\ submitted = <<>>
    /\ outcome = "running"

IdleResolve ==
    /\ symbols = <<>>
    /\ resolved = <<>>

\* the variables of the blob encoder and of its reader
IdleCodec ==
    /\ compressed = <<>>
    /\ decoded = <<>>

InitBuild ==
    /\ IdleMain
    /\ IdleResolve
    /\ pc = "open"
    /\ functions = EmptyMap
    /\ procNames = [a \in Rvas |-> {}]
    /\ procFlags = [a \in Rvas |-> {}]
    /\ declared = {}
    /\ failed = FALSE
    /\ order = <<>>
    /\ name_counts = EmptyMap
    /\ funcs = <<>>
    /\ IdleCodec

\* PDB::open, address_map, debug_information, modules: each may fail (`?`)
OpenPdb ==
    /\ pc = "open"
    /\ \E ok \in BOOLEAN : pc' = IF ok THEN "modules" ELSE "err"
    /\ UNCHANGED <<pdbVars, codecVars, mainVars, resolveVars>>

\* modules.next(): Ok(Some(module)) enters the body; Ok(None) and Err(_) both
\* leave the `while let` loop
NextModule ==
    /\ pc = "modules"
    /\ \E r \in {"some", "none", "err"} :
        /\ pc' = IF r = "some" THEN "module_info" ELSE "global_symbols"
        /\ failed' = (failed \/ r = "err")
    /\ UNCHANGED <<functions, procNames, procFlags, declared, order, name_counts, funcs,
                   codecVars, mainVars, resolveVars>>

\* pdb.module_info(&module)? and info.symbols()?
ModuleInfo ==
    /\ pc = "module_info"
    /\ \E r \in {"some", "none", "err"} :
        pc' = CASE r = "some" -> "symbols"
                [] r = "none" -> "modules"
                [] r = "err"  -> "err"
    /\ UNCHANGED <<pdbVars, codecVars, mainVars, resolveVars>>

\* symbols.next() yields a procedure symbol
ProcedureSymbol ==
    /\ pc = "symbols"
    /\ \E offset \in Offsets, raw \in RawNames, never \in BOOLEAN :
        LET rva == to_rva(offset)
            demangled == Demangle(raw)
        IN  IF rva # NoRva
            THEN /\ functions' = InsertProcedure(functions, rva, demangled, never)
                 /\ procNames' = [procNames EXCEPT ![rva] = @ \cup {demangled}]
                 /\ procFlags' = [procFlags EXCEPT ![rva] = @ \cup {never}]
                 /\ declared' = declared \cup {rva}
            ELSE UNCHANGED <<functions, procNames, procFlags, declared>>
    /\ UNCHANGED <<pc, failed, order, name_counts, funcs, codecVars, mainVars,
                   resolveVars>>

\* symbols.next() yields a symbol that is no procedure, or one that fails to parse
OtherSymbol ==
    /\ pc = "symbols"
    /\ UNCHANGED vars

\* symbols.next(): Ok(None) and Err(_) both leave the inner `while let` loop
EndSymbols ==
    /\ pc = "symbols"
    /\ pc' = "modules"
    /\ \E r \in {"none", "err"} : failed' = (failed \/ r = "err")
    /\ UNCHANGED <<functions, procNames, procFlags, declared, order, name_counts, funcs,
                   codecVars, mainVars, resolveVars>>

\* pdb.global_symbols(): an Err skips the public pass
GlobalSymbols ==
    /\ pc = "global_symbols"
    /\ \E ok \in BOOLEAN : pc' = IF ok THEN "globals" ELSE "dedup"
    /\ UNCHANGED <<pdbVars, codecVars, mainVars, resolveVars>>

\* symbols.next() yields SymbolData::Public(data)
PublicSymbol ==
    /\ pc = "globals"
    /\ \E offset \in Offsets, raw \in RawNames, function \in BOOLEAN :
        IF function
        THEN /\ functions' = InsertPublic(functions, unwrap_or_default(to_rva(offset)),
                                          Demangle(raw))
             /\ declared' = declared \cup ({to_rva(offset)} \ {NoRva})
        ELSE UNCHANGED <<functions, declared>>
    /\ UNCHANGED <<pc, procNames, procFlags, failed, order, name_counts, funcs,
                   codecVars, mainVars, resolveVars>>

\* symbols.next(): Ok(None) and Err(_) both leave the loop
EndGlobals ==
    /\ pc = "globals"
    /\ pc' = "dedup"
    /\ UNCHANGED <<pdbVars, codecVars, mainVars, resolveVars>>

NextBuild ==
    \/ OpenPdb
    \/ NextModule
    \/ ModuleInfo
    \/ ProcedureSymbol
    \/ OtherSymbol
    \/ EndSymbols
    \/ GlobalSymbols
    \/ PublicSymbol
    \/ EndGlobals

SpecBuild == InitBuild /\ [][NextBuild]_vars

----------------------------------------------------------------------------
(* parse_pdb_impl: the name disambiguator *)

RECURSIVE Decimal(_)
\* Hex formatting with "{}" in place of "{:x}"
Decimal(n) ==
    IF n < 10 THEN <<48 + n>> ELSE Decimal(n \div 10) \o <<48 + (n % 10)>>

RECURSIVE Hex(_)
\* format!("{:x}", n): lowercase hexadecimal, no padding, no prefix
Hex(n) ==
    LET d == n % 16
        c == IF d < 10 THEN 48 + d ELSE 87 + d
    IN  IF n < 16 THEN <<c>> ELSE Hex(n \div 16) \o <<c>>

\* final_name after the match on name_counts.entry(name)
FinalName(name, counts) ==
    IF name \in DOMAIN counts
    THEN name \o <<95>> \o Hex(counts[name])
    ELSE name

\* name_counts after the match on name_counts.entry(name)
Count(name, counts) ==
    IF name \in DOMAIN counts
    THEN [counts EXCEPT ![name] = @ + 1]
    ELSE counts @@ (name :> 1)

RECURSIVE AscendingSeq(_)
AscendingSeq(S) ==
    IF S = {} THEN <<>>
    ELSE LET m == CHOOSE x \in S : \A y \in S : x <= y
         IN  <<m>> \o AscendingSeq(S \ {m})

Reverse(s) == [i \in 1..Len(s) |-> s[Len(s) + 1 - i]]

Rotate(s, k) == [i \in 1..Len(s) |-> s[((i + k - 1) % Len(s)) + 1]]

\* the orders in which a HashMap with key set S may be iterated: every
\* permutation of S (of a larger S, within the bounds, the rotations of the
\* ascending and of the descending order)
IterOrders(S) ==
    IF Cardinality(S) <= MaxPermute
    THEN {f \in [1..Cardinality(S) -> S] : \A i, j \in DOMAIN f : i # j => f[i] # f[j]}
    ELSE {Rotate(s, k) : s \in {AscendingSeq(S), Reverse(AscendingSeq(S))},
                         k \in 0..(Cardinality(S) - 1)}

\* `for (address, (name, noreturn)) in functions` starts
BeginDedup ==
    /\ pc = "dedup"
    /\ order' \in IterOrders(DOMAIN functions)
    /\ pc' = "dedup_loop"
    /\ UNCHANGED <<functions, procNames, procFlags, declared, failed, name_counts, funcs,
                   codecVars, mainVars, resolveVars>>

\* one iteration of the loop: the entry visited next is order[Len(funcs) + 1]
DedupStep ==
    /\ pc = "dedup_loop"
    /\ Len(funcs) < Len(order)
    /\ LET address == order[Len(funcs) + 1]
           name == functions[address].name
       IN  /\ name_counts' = Count(name, name_counts)
           /\ funcs' = Append(funcs, [address  |-> address,
                                      name     |-> FinalName(name, name_counts),
                                      noreturn |-> functions[address].noreturn])
    /\ UNCHANGED <<pc, functions, procNames, procFlags, declared, failed, order, codecVars,
                   mainVars, resolveVars>>

\* Ok(funcs)
DedupReturn ==
    /\ pc = "dedup_loop"
    /\ Len(funcs) = Len(order)
    /\ pc' = "done"
    /\ UNCHANGED <<pdbVars, codecVars, mainVars, resolveVars>>

\* the display names of the table entries
NameTexts == {Demangle(raw) : raw \in RawNames}

\* the address->(name, noreturn) tables the disambiguator is run on
Tables ==
    UNION {[S -> [name : NameTexts, noreturn : BOOLEAN]] :
               S \in SUBSET (1..MaxPermute)}
    \cup {[a \in 1..n |-> [name |-> t, noreturn |-> FALSE]] :
               n \in (MaxPermute + 1)..MaxSame, t \in NameTexts}

InitDedup ==
    /\ IdleMain
    /\ IdleResolve
    /\ pc = "dedup"
    /\ functions \in Tables
    /\ procNames = [a \in Rvas |-> {}]
    /\ procFlags = [a \in Rvas |-> {}]
    /\ declared = {}
    /\ failed = FALSE
    /\ order = <<>>
    /\ name_counts = EmptyMap
    /\ funcs = <<>>
    /\ IdleCodec

NextDedup ==
    \/ BeginDedup
    \/ DedupStep
    \/ DedupReturn

SpecDedup == InitDedup /\ [][NextDedup]_vars

----------------------------------------------------------------------------
(* parse_pdb: the blob encoder *)

\* the n low-order bytes of v, least significant first
LittleEndian(v, n) == [i \in 1..n |-> (v \div (256 ^ (i - 1))) % 256]

\* bincode's variable-length integer encoding of config::standard(): a value
\* below 251 is one byte, a value below 2^16 is the byte 251 and two bytes, a
\* value below 2^32 is the byte 252 and four bytes, little-endian (the 8-byte
\* form, of the values from 2^32 on, is beyond the sizes modelled)
Varint(v) ==
    IF v < 251 THEN <<v>>
    ELSE IF v < 65536 THEN <<251>> \o LittleEndian(v, 2)
    ELSE <<252>> \o LittleEndian(v, 4)

\* String: the length in bytes, then the UTF-8 bytes (the texts of the model
\* are ASCII: one byte per code point)
EncodeString(t) == Varint(Len(t)) \o t

\* bool: one byte, 0 or 1
EncodeBool(b) == <<IF b THEN 1 ELSE 0>>

\* EncodeInfo leaving the last field out
EncodeInfoNoFlag(info) == Varint(info.address) \o EncodeString(info.name)

\* #[derive(Encode)] on DebugSymbolInfo: the fields in declaration order
EncodeInfo(info) ==
    Varint(info.address) \o EncodeString(info.name) \o EncodeBool(info.noreturn)

RECURSIVE EncodeEach(_)
EncodeEach(v) == IF v = <<>> THEN <<>> ELSE EncodeInfo(Head(v)) \o EncodeEach(Tail(v))

\* bincode::encode_to_vec(&funcs, bincode::config::standard()): the number of
\* elements, then the elements
encode_to_vec(v) == Varint(Len(v)) \o EncodeEach(v)

\* the magic number 0xFD2FB528 of a zstd frame, little-endian
ZstdMagic == <<40, 181, 47, 253>>

\* the frame header of zstd's streaming encoder at level 3: descriptor 0x00 (no
\* content size, no checksum, no dictionary) and window descriptor 0x58
ZstdFrameHeader == <<0, 88>>

\* a block header: Last_Block in bit 0, Block_Type in bits 1-2, Block_Size in
\* bits 3-23, three bytes little-endian
ZstdBlockHeader(last, type, size) ==
    LittleEndian((IF last THEN 1 ELSE 0) + 2 * type + 8 * size, 3)

\* zstd::encode_all(&*serialized, 3): one frame of one block. The block is a
\* Raw_Block (type 0), the form libzstd gives a block it does not shrink; its
\* match finder and entropy coder, which turn longer or repetitive input into
\* a Compressed_Block, are not modelled.
encode_all(bytes) ==
    ZstdMagic \o ZstdFrameHeader \o ZstdBlockHeader(TRUE, 0, Len(bytes)) \o bytes

\* parse_pdb after `let Ok(funcs) = parse_pdb_impl(pdb_bytes) else { return None }`:
\* the Err of parse_pdb_impl
ParseFailed ==
    /\ pc = "err"
    /\ compressed' = <<>>
    /\ pc' = "parse_pdb_return"
    /\ UNCHANGED <<pdbVars, decoded, mainVars, resolveVars>>

\* parse_pdb: encode_to_vec, then encode_all; an Err of either gives None
Encode ==
    /\ pc = "done"
    /\ \E r \in {"ok", "encode_err", "compress_err"} :
        compressed' = IF r = "ok" THEN <<encode_all(encode_to_vec(funcs))>> ELSE <<>>
    /\ pc' = "parse_pdb_return"
    /\ UNCHANGED <<pdbVars, decoded, mainVars, resolveVars>>

\* parse_pdb as a whole: the table builder, the name disambiguator, the encoder
NextParse ==
    \/ NextBuild
    \/ NextDedup
    \/ ParseFailed
    \/ Encode

SpecParse == InitBuild /\ [][NextParse]_vars

----------------------------------------------------------------------------
(* The reader of the blob: decompress, then deserialize *)

Failure == [ok |-> FALSE, value |-> <<>>, rest |-> <<>>]

Read(value, rest) == [ok |-> TRUE, value |-> value, rest |-> rest]

Drop(bytes, n) == SubSeq(bytes, n + 1, Len(bytes))

\* the value of n bytes, least significant first
FromLittleEndian(bytes, n) ==
    LET RECURSIVE Value(_)
        Value(i) == IF i > n THEN 0 ELSE bytes[i] + 256 * Value(i + 1)
    IN  Value(1)

\* the inverse of Varint
ReadVarint(bytes) ==
    IF bytes = <<>> THEN Failure
    ELSE IF bytes[1] < 251 THEN Read(bytes[1], Tail(bytes))
    ELSE IF bytes[1] = 251 /\ Len(bytes) >= 3
         THEN Read(FromLittleEndian(Tail(bytes), 2), Drop(bytes, 3))
    ELSE IF bytes[1] = 252 /\ Len(bytes) >= 5
         THEN Read(FromLittleEndian(Tail(bytes), 4), Drop(bytes, 5))
    ELSE Failure

ReadString(bytes) ==
    LET n == ReadVarint(bytes)
    IN  IF n.ok /\ Len(n.rest) >= n.value
        THEN Read(SubSeq(n.rest, 1, n.value), Drop(n.rest, n.value))
        ELSE Failure

\* a bool is the byte 0 or the byte 1, any other byte is an error
ReadBool(bytes) ==
    IF bytes # <<>> /\ bytes[1] \in {0, 1} THEN Read(bytes[1] = 1, Tail(bytes)) ELSE Failure

\* #[derive(Decode)] on DebugSymbolInfo
ReadInfo(bytes) ==
    LET address == ReadVarint(bytes)
        name == ReadString(address.rest)
        noreturn == ReadBool(name.rest)
    IN  IF address.ok /\ name.ok /\ noreturn.ok
        THEN Read([address  |-> address.value,
                   name     |-> name.value,
                   noreturn |-> noreturn.value], noreturn.rest)
        ELSE Failure

RECURSIVE ReadEach(_, _)
ReadEach(bytes, n) ==
    IF n = 0 THEN Read(<<>>, bytes)
    ELSE LET info == ReadInfo(bytes)
             others == ReadEach(info.rest, n - 1)
         IN  IF info.ok /\ others.ok
             THEN Read(<<info.value>> \o others.value, others.rest)
             ELSE Failure

\* deserialize: the number of elements, then the elements
decode_from_slice(bytes) ==
    LET n == ReadVarint(bytes)
    IN  IF n.ok THEN ReadEach(n.rest, n.value) ELSE Failure

RECURSIVE ReadBlocks(_)
\* the blocks of a frame up to the one marked last; a block that is no
\* Raw_Block, or is cut short, is an error
ReadBlocks(bytes) ==
    IF Len(bytes) < 3 THEN Failure
    ELSE LET header == FromLittleEndian(bytes, 3)
             last == header % 2 = 1
             type == (header \div 2) % 4
             size == header \div 8
             body == Drop(bytes, 3)
             others == ReadBlocks(Drop(body, size))
         IN  IF type # 0 \/ Len(body) < size THEN Failure
             ELSE IF last THEN Read(SubSeq(body, 1, size), Drop(body, size))
             ELSE IF others.ok
                  THEN Read(SubSeq(body, 1, size) \o others.value, others.rest)
                  ELSE Failure

\* decompress: the magic number, the frame header, the blocks
decode_all(bytes) ==
    IF /\ Len(bytes) >= 6
       /\ SubSeq(bytes, 1, 4) = ZstdMagic
       /\ SubSeq(bytes, 5, 6) = ZstdFrameHeader
    THEN ReadBlocks(Drop(bytes, 6))
    ELSE Failure

\* decompress then deserialize; any corruption is a failure
decode(bytes) ==
    LET serialized == decode_all(bytes)
    IN  IF serialized.ok THEN decode_from_slice(serialized.value) ELSE Failure

\* the reader is handed the blob parse_pdb returned
Decode ==
    /\ pc = "parse_pdb_return"
    /\ compressed # <<>>
    /\ decoded' = <<decode(compressed[1])>>
    /\ pc' = "decoded"
    /\ UNCHANGED <<pdbVars, compressed, mainVars, resolveVars>>

\* the addresses of the sequences the encoder is run on: the values around
\* the steps of Varint
CodecAddresses == {0, 250, 251, 65535, 65536, 2147483647}

Infos == [address : CodecAddresses, name : NameTexts, noreturn : BOOLEAN]

InitCodec ==
    /\ IdleMain
    /\ IdleResolve
    /\ pc = "done"
    /\ functions = EmptyMap
    /\ procNames = [a \in Rvas |-> {}]
    /\ procFlags = [a \in Rvas |-> {}]
    /\ declared = {}
    /\ failed = FALSE
    /\ order = <<>>
    /\ name_counts = EmptyMap
    /\ funcs \in UNION {[1..n -> Infos] : n \in 0..MaxInfos}
    /\ IdleCodec

NextCodec ==
    \/ Encode
    \/ Decode

SpecCodec == InitCodec /\ [][NextCodec]_vars

----------------------------------------------------------------------------
(* Properties of the symbol table builder and of the name disambiguator *)

RECURSIVE Precedes(_, _)
\* code-point order of two texts: a precedes b, or a = b
Precedes(a, b) ==
    IF a = <<>> THEN TRUE
    ELSE IF b = <<>> THEN FALSE
    ELSE IF Head(a) # Head(b) THEN Head(a) < Head(b)
    ELSE Precedes(Tail(a), Tail(b))

\* the smallest text of a non-empty set
Smallest(S) == CHOOSE n \in S : \A m \in S : Precedes(n, m)

\* positions of parse_pdb_impl before the public/global pass
ProcedurePass == {"modules", "module_info", "symbols", "global_symbols"}

\* C1: while the procedure pass runs and when it has ended, the entry of every
\* address that procedure symbols were declared at holds the smallest (in
\* code-point order) of the demangled names declared at that address and the
\* OR of their never-return flags, whatever the order of the declarations.
C1_ProcedureMerge ==
    pc \in ProcedurePass =>
        \A a \in Rvas :
            procNames[a] # {} =>
                /\ a \in DOMAIN functions
                /\ functions[a].name = Smallest(procNames[a])
                /\ functions[a].noreturn = (TRUE \in procFlags[a])

\* an address declared three times, under three names and with both flags
C1_Witness ==
    /\ pc \in ProcedurePass
    /\ \E a \in DOMAIN functions :
        /\ Cardinality(procNames[a]) = 3
        /\ procFlags[a] = {TRUE, FALSE}
        /\ functions[a] = [name |-> Alpha, noreturn |-> TRUE]

\* C2: in and after the public/global pass, an entry's noreturn is still the
\* OR of the never-return flags that procedure symbols declared at its address:
\* FALSE for an address only public symbols declared, unchanged by a public
\* symbol for an address that had an entry.
C2_PublicKeepsNoreturn ==
    pc \in {"globals", "dedup"} =>
        \A a \in DOMAIN functions :
            functions[a].noreturn = (TRUE \in procFlags[a])

\* a public-only entry, and a never-returning procedure entry that a public
\* symbol has renamed
C2_Witness ==
    /\ pc = "dedup"
    /\ \E a, b \in DOMAIN functions :
        /\ procNames[a] = {}
        /\ ~functions[a].noreturn
        /\ procNames[b] # {}
        /\ functions[b].name \notin procNames[b]
        /\ functions[b].noreturn

Indices == 1..Len(funcs)

\* C3: the emitted records carry pairwise different names, and each record
\* keeps the address and the noreturn value of its table entry.
C3_UniqueNames ==
    pc = "done" =>
        /\ \A i, j \in Indices : i # j => funcs[i].name # funcs[j].name
        /\ \A i \in Indices :
            /\ funcs[i].address \in DOMAIN functions
            /\ funcs[i].noreturn = functions[funcs[i].address].noreturn

\* "0123456789abcdef"
HexDigits == <<48, 49, 50, 51, 52, 53, 54, 55, 56, 57, 97, 98, 99, 100, 101, 102>>

RECURSIVE LowerHex(_)
\* the unpadded lowercase hexadecimal numeral of n
LowerHex(n) ==
    IF n < 16 THEN <<HexDigits[n + 1]>>
    ELSE LowerHex(n \div 16) \o <<HexDigits[(n % 16) + 1]>>

\* the addresses of the table that carry the name text t
Sharing(t) == {a \in DOMAIN functions : functions[a].name = t}

\* the names emitted for the addresses that carry the name text t
EmittedFor(t) == {funcs[i].name : i \in {j \in Indices : funcs[j].address \in Sharing(t)}}

Dup_a == <<68, 117, 112, 95, 97>>

----------------------------------------------------------------------------
(* main.rs: resolve_symbols and is_valid_rva *)

\* Option<u64>::None
None == -1

\* YamlSymbol::Name(name) and YamlSymbol::Rva(rva); resolve_symbols has no arm
\* for any other kind of reference
ByName(name) == [kind |-> "Name", name |-> name, rva |-> 0]

ByRva(rva) == [kind |-> "Rva", name |-> "", rva |-> rva]

\* Result<Vec<u64>, Box<dyn Error>>
Ok(value) == [ok |-> TRUE, value |-> value, error |-> ""]

Err(message) == [ok |-> FALSE, value |-> <<>>, error |-> message]

RECURSIVE FindFunction(_, _, _)
\* analysis.functions.iter().find(|f| f.symbol == *name).map(|e| e.rva)
FindFunction(fs, name, i) ==
    IF i > Len(fs) THEN None
    ELSE IF fs[i].symbol = name THEN fs[i].rva
    ELSE FindFunction(fs, name, i + 1)

RECURSIVE FindRejectAnyTy(_, _, _)
\* FindReject without the test of r.ty
FindRejectAnyTy(rs, name, i) ==
    IF i > Len(rs) THEN None
    ELSE IF rs[i].symbol = name THEN rs[i].rva
    ELSE FindRejectAnyTy(rs, name, i + 1)

RECURSIVE FindReject(_, _, _)
\* analysis.rejects.iter().find(|r| r.symbol == *name && r.ty == "ReadWriteToCode")
\*     .map(|e| e.rva)
FindReject(rs, name, i) ==
    IF i > Len(rs) THEN None
    ELSE IF rs[i].symbol = name /\ rs[i].ty = "ReadWriteToCode" THEN rs[i].rva
    ELSE FindReject(rs, name, i + 1)

\* the search of the YamlSymbol::Name arm: functions, or_else rejects
ResolveName(name, a) ==
    LET rva == FindFunction(a.functions, name, 1)
    IN  IF rva # None THEN rva ELSE FindReject(a.rejects, name, 1)

\* is_valid_rva without the search of the rejects
IsValidRvaFunctionsOnly(rva, a) ==
    \E i \in DOMAIN a.functions : a.functions[i].rva = rva

\* is_valid_rva without the test of r.ty
IsValidRvaAnyReject(rva, a) ==
    \/ \E i \in DOMAIN a.functions : a.functions[i].rva = rva
    \/ \E i \in DOMAIN a.rejects : a.rejects[i].rva = rva

\* fn is_valid_rva
is_valid_rva(rva, a) ==
    \/ \E i \in DOMAIN a.functions : a.functions[i].rva = rva
    \/ \E i \in DOMAIN a.rejects :
           a.rejects[i].rva = rva /\ a.rejects[i].ty = "ReadWriteToCode"

RECURSIVE ResolveFrom(_, _, _, _)
\* the loop of resolve_symbols from the i-th reference on, `acc` being the
\* addresses pushed so far
ResolveFrom(syms, a, i, acc) ==
    IF i > Len(syms) THEN Ok(acc)
    ELSE IF syms[i].kind = "Name"
    THEN LET rva == ResolveName(syms[i].name, a)
         IN  IF rva # None
             THEN ResolveFrom(syms, a, i + 1, Append(acc, rva))
             ELSE Err("Missing symbol")
    ELSE IF ~is_valid_rva(syms[i].rva, a)
         THEN Err("Invalid RVA")
         ELSE ResolveFrom(syms, a, i + 1, Append(acc, syms[i].rva))

\* fn resolve_symbols: Ok(resolved), or the Err of the first reference to fail
resolve_symbols(syms, a) == ResolveFrom(syms, a, 1, <<>>)

SeqsUpTo(S, n) == UNION {[1..k -> S] : k \in 0..n}

\* the references, accepted functions and rejected functions resolve_symbols
\* is run on
SymbolRefs == {ByName("f"), ByName("g"), ByRva(1), ByRva(2), ByRva(3)}

FunctionEntries ==
    {[rva |-> 1, symbol |-> "f"], [rva |-> 2, symbol |-> "f"], [rva |-> 1, symbol |-> "g"]}

RejectEntries ==
    {[rva |-> 3, symbol |-> "f", ty |-> "ReadWriteToCode"],
     [rva |-> 2, symbol |-> "g", ty |-> "ReadWriteToCode"],
     [rva |-> 3, symbol |-> "g", ty |-> "ReadWriteToCode"],
     [rva |-> 3, symbol |-> "g", ty |-> "UnknownIndirectJump"]}

InitResolve ==
    /\ pc = "resolve_symbols"
    /\ symbols \in SeqsUpTo(SymbolRefs, MaxRefs)
    /\ analysis \in {<<a>> : a \in [functions : SeqsUpTo(FunctionEntries, MaxFunctions),
                                    rejects   : SeqsUpTo(RejectEntries, MaxRejects),
                                    macros    : {<<>>}]}
    /\ resolved = <<>>
    /\ config = [version |-> "", profiles |-> <<>>]
    /\ cdconfig = [profiles |-> <<>>]
    /\ macro_index = 0
    /\ issued = {}
    /\ observed = <<>>
    /\ timed_out = ""
    /\ submitted = <<>>
    /\ outcome = "running"
    /\ functions = EmptyMap
    /\ procNames = [a \in Rvas |-> {}]
    /\ procFlags = [a \in Rvas |-> {}]
    /\ declared = {}
    /\ failed = FALSE
    /\ order = <<>>
    /\ name_counts = EmptyMap
    /\ funcs = <<>>
    /\ IdleCodec

\* resolve_symbols(symbols, &analysis)
Resolve ==
    /\ pc = "resolve_symbols"
    /\ resolved' = <<resolve_symbols(symbols, analysis[1])>>
    /\ pc' = "resolve_symbols_return"
    /\ UNCHANGED <<symbols, pdbVars, codecVars, mainVars>>

NextResolve == Resolve

SpecResolve == InitResolve /\ [][NextResolve]_vars

----------------------------------------------------------------------------
(* main.rs: main *)

YAML_CONFIG_VERSION == "1.0.6"

\* FindProfile yielding the last profile of that name
FindProfileLast(profiles, name) ==
    LET matching == {k \in DOMAIN profiles : profiles[k].name = name}
    IN  IF matching = {} THEN 0
        ELSE CHOOSE k \in matching : \A l \in matching : k >= l

\* cdconfig.profiles.iter_mut().find(|p| p.name == macro_profile.name): the
\* position of the first profile of that name, 0 for None
FindProfile(profiles, name) ==
    LET matching == {k \in DOMAIN profiles : profiles[k].name = name}
    IN  IF matching = {} THEN 0
        ELSE CHOOSE k \in matching : \A l \in matching : k <= l

\* MacroRvasValid checking the first rva of the group only
MacroFirstRvaValid(rvas, a) == rvas = <<>> \/ is_valid_rva(rvas[1], a)

\* the check of every rva of a macro group before the group is merged
MacroRvasValid(rvas, a) == \A i \in DOMAIN rvas : is_valid_rva(rvas[i], a)

\* ExtendProfile leaving out the addresses the profile already holds
ExtendProfileDedup(profiles, k, rvas) ==
    LET held == profiles[k].symbols
        fresh(r) == \A i \in DOMAIN held : held[i] # r
    IN  [profiles EXCEPT ![k].symbols = held \o SelectSeq(rvas, fresh)]

\* p.symbols.extend(macro_profile.rvas.clone()) on the k-th profile
ExtendProfile(profiles, k, rvas) ==
    [profiles EXCEPT ![k].symbols = @ \o rvas]

\* the configurations and analysis results main is run on
ProfileNames == {"p", "q"}

ConfigRefLists ==
    {<<ByName("f")>>, <<ByRva(2), ByName("f")>>, <<ByName("f"), ByRva(1)>>}

MacroRvaLists == {<<1>>, <<1, 2>>, <<2, 1>>}

Configs ==
    [version  : {YAML_CONFIG_VERSION, "1.0.5"},
     profiles : SeqsUpTo([name : ProfileNames, symbols : ConfigRefLists], MaxProfiles)]

Analyses ==
    [functions : {<<>>, <<[rva |-> 1, symbol |-> "f"]>>},
     rejects   : {<<[rva |-> 2, symbol |-> "f", ty |-> "ReadWriteToCode"]>>,
                  <<[rva |-> 2, symbol |-> "f", ty |-> "UnknownIndirectJump"]>>},
     macros    : SeqsUpTo([name : ProfileNames, rvas : MacroRvaLists], MaxMacros)]

InitMain ==
    /\ pc = "main"
    /\ config \in Configs
    /\ analysis = <<>>
    /\ cdconfig = [profiles |-> <<>>]
    /\ macro_index = 1
    /\ issued = {}
    /\ observed = <<>>
    /\ timed_out = ""
    /\ submitted = <<>>
    /\ outcome = "running"
    /\ IdleResolve
    /\ functions = EmptyMap
    /\ procNames = [a \in Rvas |-> {}]
    /\ procFlags = [a \in Rvas |-> {}]
    /\ declared = {}
    /\ failed = FALSE
    /\ order = <<>>
    /\ name_counts = EmptyMap
    /\ funcs = <<>>
    /\ IdleCodec

\* `return Ok(())`, `?` on an Err and a failed `expect` all end main
Exit(result) ==
    /\ pc' = "exit"
    /\ outcome' = result

Goto(position) ==
    /\ pc' = position
    /\ UNCHANGED outcome

\* a request to the remote service
Request(name) == issued' = issued \cup {name}

\* CheckVersion logging the mismatch without the `return`
CheckVersionNoReturn ==
    /\ pc = "main"
    /\ Goto("upload_file")
    /\ UNCHANGED <<config, analysis, cdconfig, macro_index, issued, observed, timed_out,
                   submitted>>
    /\ UNCHANGED <<pdbVars, codecVars, resolveVars>>

\* if config.version != YAML_CONFIG_VERSION { .. return Ok(()) }
CheckVersion ==
    /\ pc = "main"
    /\ IF config.version # YAML_CONFIG_VERSION
       THEN Exit("Ok")
       ELSE Goto("upload_file")
    /\ UNCHANGED <<config, analysis, cdconfig, macro_index, issued, observed, timed_out,
                   submitted>>
    /\ UNCHANGED <<pdbVars, codecVars, resolveVars>>

\* fs::read(&cli.input_file)? and api::upload_file(..).expect(..)
UploadFile ==
    /\ pc = "upload_file"
    /\ \E r \in {"ok", "read_failed", "upload_failed"} :
        CASE r = "ok"            -> Request("upload_file") /\ Goto("upload_pdb")
          [] r = "read_failed"   -> UNCHANGED issued /\ Exit("Err")
          [] r = "upload_failed" -> Request("upload_file") /\ Exit("panic")
    /\ UNCHANGED <<config, analysis, cdconfig, macro_index, observed, timed_out, submitted>>
    /\ UNCHANGED <<pdbVars, codecVars, resolveVars>>

\* match &cli.pdb_file: fs::read(path)?, parse_pdb(..).expect(..), upload_data(..)?
UploadPdb ==
    /\ pc = "upload_pdb"
    /\ \E r \in {"no_pdb", "ok", "read_failed", "parse_failed", "upload_failed"} :
        CASE r = "no_pdb"        -> UNCHANGED issued /\ Goto("upload_settings")
          [] r = "ok"            -> Request("upload_pdb") /\ Goto("upload_settings")
          [] r = "read_failed"   -> UNCHANGED issued /\ Exit("Err")
          [] r = "parse_failed"  -> UNCHANGED issued /\ Exit("panic")
          [] r = "upload_failed" -> Request("upload_pdb") /\ Exit("Err")
    /\ UNCHANGED <<config, analysis, cdconfig, macro_index, observed, timed_out, submitted>>
    /\ UNCHANGED <<pdbVars, codecVars, resolveVars>>

\* upload_disassembly_settings(..)?
UploadSettings ==
    /\ pc = "upload_settings"
    /\ Request("upload_disassembly_settings")
    /\ \E ok \in BOOLEAN : IF ok THEN Goto("start_analyze") ELSE Exit("Err")
    /\ UNCHANGED <<config, analysis, cdconfig, macro_index, observed, timed_out, submitted>>
    /\ UNCHANGED <<pdbVars, codecVars, resolveVars>>

\* api::start_analyze(..)?
StartAnalyze ==
    /\ pc = "start_analyze"
    /\ Request("start_analyze")
    /\ \E ok \in BOOLEAN : IF ok THEN Goto("analysis_loop") ELSE Exit("Err")
    /\ UNCHANGED <<config, analysis, cdconfig, macro_index, observed, timed_out, submitted>>
    /\ UNCHANGED <<pdbVars, codecVars, resolveVars>>

\* AnalysisTimeout logging the timeout without the `return`
AnalysisTimeoutNoReturn ==
    /\ pc = "analysis_loop"
    /\ \E expired \in BOOLEAN :
        timed_out' = IF expired THEN "analysis" ELSE timed_out
    /\ Goto("analysis_status")
    /\ UNCHANGED <<config, analysis, cdconfig, macro_index, issued, observed, submitted>>
    /\ UNCHANGED <<pdbVars, codecVars, resolveVars>>

\* if start_time.elapsed() > timeout_duration { .. return Ok(()) }
AnalysisTimeout ==
    /\ pc = "analysis_loop"
    /\ \E expired \in BOOLEAN :
        IF expired
        THEN timed_out' = "analysis" /\ Exit("Ok")
        ELSE UNCHANGED timed_out /\ Goto("analysis_status")
    /\ UNCHANGED <<config, analysis, cdconfig, macro_index, issued, observed, submitted>>
    /\ UNCHANGED <<pdbVars, codecVars, resolveVars>>

\* the statuses a poll may return: the service answers Processing at most
\* MaxProcessing times per unit of work
Statuses(seen) ==
    {"Ready", "Failed"} \cup (IF Len(seen) < MaxProcessing THEN {"Processing"} ELSE {})

\* AnalysisMatch with a Failed arm that, like the Processing arm, only logs
AnalysisMatchFailedRetries(status) ==
    CASE status = "Ready"      -> Goto("analysis_download")
      [] status = "Processing" -> Goto("analysis_sleep")
      [] status = "Failed"     -> Goto("analysis_sleep")

\* the arms of `match api::get_analyze_status(..)`
AnalysisMatch(status) ==
    CASE status = "Ready"      -> Goto("analysis_download")
      [] status = "Processing" -> Goto("analysis_sleep")
      [] status = "Failed"     -> Exit("Ok")

\* match api::get_analyze_status(..)
AnalysisStatus ==
    /\ pc = "analysis_status"
    /\ Request("get_analyze_status")
    /\ \E status \in Statuses(observed) :
        /\ observed' = Append(observed, status)
        /\ AnalysisMatch(status)
    /\ UNCHANGED <<config, analysis, cdconfig, macro_index, timed_out, submitted>>
    /\ UNCHANGED <<pdbVars, codecVars, resolveVars>>

\* std::thread::sleep(..) at the end of the loop body
AnalysisSleep ==
    /\ pc = "analysis_sleep"
    /\ Goto("analysis_loop")
    /\ UNCHANGED <<config, analysis, cdconfig, macro_index, issued, observed, timed_out,
                   submitted>>
    /\ UNCHANGED <<pdbVars, codecVars, resolveVars>>

\* analysis = Some(api::download_analysis_result(&url, &client)?); break
DownloadAnalysis ==
    /\ pc = "analysis_download"
    /\ Request("download_analysis_result")
    /\ \/ /\ analysis' \in {<<a>> : a \in Analyses}
          /\ observed' = <<>>
          /\ Goto("profiles")
       \/ /\ UNCHANGED <<analysis, observed>>
          /\ Exit("Err")
    /\ UNCHANGED <<config, cdconfig, macro_index, timed_out, submitted>>
    /\ UNCHANGED <<pdbVars, codecVars, resolveVars>>

\* one iteration of `for profile in &config.profiles`
ResolveProfile ==
    /\ pc = "profiles"
    /\ Len(cdconfig.profiles) < Len(config.profiles)
    /\ LET profile == config.profiles[Len(cdconfig.profiles) + 1]
           result == resolve_symbols(profile.symbols, analysis[1])
       IN  IF result.ok
           THEN /\ cdconfig' = [profiles |->
                       Append(cdconfig.profiles,
                              [name |-> profile.name, symbols |-> result.value])]
                /\ Goto("profiles")
           ELSE /\ UNCHANGED cdconfig
                /\ Exit(result.error)
    /\ UNCHANGED <<config, analysis, macro_index, issued, observed, timed_out, submitted>>
    /\ UNCHANGED <<pdbVars, codecVars, resolveVars>>

\* the loop over config.profiles ends
ProfilesDone ==
    /\ pc = "profiles"
    /\ Len(cdconfig.profiles) = Len(config.profiles)
    /\ Goto("macros")
    /\ UNCHANGED <<config, analysis, cdconfig, macro_index, issued, observed, timed_out,
                   submitted>>
    /\ UNCHANGED <<pdbVars, codecVars, resolveVars>>

\* one iteration of `for macro_profile in &analysis.macros`
MergeMacro ==
    /\ pc = "macros"
    /\ macro_index <= Len(analysis[1].macros)
    /\ LET macro_profile == analysis[1].macros[macro_index]
           k == FindProfile(cdconfig.profiles, macro_profile.name)
       IN  IF k # 0 /\ MacroRvasValid(macro_profile.rvas, analysis[1])
           THEN /\ cdconfig' = [profiles |->
                       ExtendProfile(cdconfig.profiles, k, macro_profile.rvas)]
                /\ macro_index' = macro_index + 1
                /\ Goto("macros")
           ELSE /\ UNCHANGED <<cdconfig, macro_index>>
                /\ Exit("Ok")
    /\ UNCHANGED <<config, analysis, issued, observed, timed_out, submitted>>
    /\ UNCHANGED <<pdbVars, codecVars, resolveVars>>

\* api::defend(binary_file_uuid, cdconfig, ..)?
Defend ==
    /\ pc = "macros"
    /\ macro_index > Len(analysis[1].macros)
    /\ Request("defend")
    /\ submitted' = <<cdconfig>>
    /\ \E ok \in BOOLEAN : IF ok THEN Goto("obfuscation_loop") ELSE Exit("Err")
    /\ UNCHANGED <<config, analysis, cdconfig, macro_index, observed, timed_out>>
    /\ UNCHANGED <<pdbVars, codecVars, resolveVars>>

\* if start_time.elapsed() > timeout_duration { .. return Ok(()) }
ObfuscationTimeout ==
    /\ pc = "obfuscation_loop"
    /\ \E expired \in BOOLEAN :
        IF expired
        THEN timed_out' = "obfuscation" /\ Exit("Ok")
        ELSE UNCHANGED timed_out /\ Goto("obfuscation_status")
    /\ UNCHANGED <<config, analysis, cdconfig, macro_index, issued, observed, submitted>>
    /\ UNCHANGED <<pdbVars, codecVars, resolveVars>>

\* the arms of `match api::download(..)`
ObfuscationMatch(status) ==
    CASE status = "Ready"      -> Goto("obfuscation_download")
      [] status = "Processing" -> Goto("obfuscation_sleep")
      [] status = "Failed"     -> Exit("Ok")

\* match api::download(..)
ObfuscationStatus ==
    /\ pc = "obfuscation_status"
    /\ Request("download")
    /\ \E status \in Statuses(observed) :
        /\ observed' = Append(observed, status)
        /\ ObfuscationMatch(status)
    /\ UNCHANGED <<config, analysis, cdconfig, macro_index, timed_out, submitted>>
    /\ UNCHANGED <<pdbVars, codecVars, resolveVars>>

\* std::thread::sleep(..) at the end of the loop body
ObfuscationSleep ==
    /\ pc = "obfuscation_sleep"
    /\ Goto("obfuscation_loop")
    /\ UNCHANGED <<config, analysis, cdconfig, macro_index, issued, observed, timed_out,
                   submitted>>
    /\ UNCHANGED <<pdbVars, codecVars, resolveVars>>

\* api::download_obfuscated_file(&url, &client)?; fs::write(..)?; return Ok(())
DownloadObfuscated ==
    /\ pc = "obfuscation_download"
    /\ Request("download_obfuscated_file")
    /\ \E ok \in BOOLEAN : IF ok THEN Exit("Ok") ELSE Exit("Err")
    /\ UNCHANGED <<config, analysis, cdconfig, macro_index, observed, timed_out, submitted>>
    /\ UNCHANGED <<pdbVars, codecVars, resolveVars>>

NextMain ==
    \/ CheckVersion
    \/ UploadFile
    \/ UploadPdb
    \/ UploadSettings
    \/ StartAnalyze
    \/ AnalysisTimeout
    \/ AnalysisStatus
    \/ AnalysisSleep
    \/ DownloadAnalysis
    \/ ResolveProfile
    \/ ProfilesDone
    \/ MergeMacro
    \/ Defend
    \/ ObfuscationTimeout
    \/ ObfuscationStatus
    \/ ObfuscationSleep
    \/ DownloadObfuscated

SpecMain == InitMain /\ [][NextMain]_vars

----------------------------------------------------------------------------
(* Properties of resolve_symbols and of main *)

Least(S) == CHOOSE k \in S : \A l \in S : k <= l

\* the analysis result in use
Result == analysis[1]

\* the accepted functions whose symbol is exactly `name`
FunctionsNamed(name) ==
    {i \in DOMAIN Result.functions : Result.functions[i].symbol = name}

\* the rejected functions whose symbol is exactly `name` and whose ty is
\* "ReadWriteToCode"
ForcedRejectsNamed(name) ==
    {j \in DOMAIN Result.rejects :
        Result.rejects[j].symbol = name /\ Result.rejects[j].ty = "ReadWriteToCode"}

\* the address a by-name reference stands for, None when it stands for none
AddressOfName(name) ==
    IF FunctionsNamed(name) # {}
    THEN Result.functions[Least(FunctionsNamed(name))].rva
    ELSE IF ForcedRejectsNamed(name) # {}
    THEN Result.rejects[Least(ForcedRejectsNamed(name))].rva
    ELSE None

\* the validity rule
ValidAddress(rva) ==
    \/ \E f \in {Result.functions[i] : i \in DOMAIN Result.functions} : f.rva = rva
    \/ \E r \in {Result.rejects[j] : j \in DOMAIN Result.rejects} :
           r.rva = rva /\ r.ty = "ReadWriteToCode"

Resolvable(ref) ==
    IF ref.kind = "Name" THEN AddressOfName(ref.name) # None ELSE ValidAddress(ref.rva)

AddressOf(ref) == IF ref.kind = "Name" THEN AddressOfName(ref.name) ELSE ref.rva

\* the position of the first reference that cannot be resolved, 0 if none
FirstFailure(refs) ==
    LET bad == {i \in DOMAIN refs : ~Resolvable(refs[i])}
    IN  IF bad = {} THEN 0 ELSE Least(bad)

Returned == resolved[1]

\* C5: a by-name reference resolves to the rva of the first accepted function
\* of that symbol, else to the rva of the first "ReadWriteToCode" reject of
\* that symbol; the first reference to fail, if by name, makes resolve_symbols
\* return the "Missing symbol" error.
C5_ByName ==
    pc = "resolve_symbols_return" =>
        /\ Returned.ok =>
            /\ Len(Returned.value) = Len(symbols)
            /\ \A i \in DOMAIN symbols :
                symbols[i].kind = "Name" =>
                    /\ AddressOfName(symbols[i].name) # None
                    /\ Returned.value[i] = AddressOfName(symbols[i].name)
        /\ \A i \in DOMAIN symbols :
            (symbols[i].kind = "Name" /\ FirstFailure(symbols) = i) =>
                Returned = Err("Missing symbol")
        /\ FirstFailure(symbols) = 0 => Returned.ok

\* "g" is resolved through the second reject, the first being of another ty
C5_Witness ==
    /\ pc = "resolve_symbols_return"
    /\ Returned.ok
    /\ Len(Result.rejects) = 2
    /\ Result.rejects[1].symbol = "g"
    /\ Result.rejects[1].ty # "ReadWriteToCode"
    /\ \E i \in DOMAIN symbols :
        /\ symbols[i] = ByName("g")
        /\ FunctionsNamed("g") = {}
        /\ Returned.value[i] = 2

\* C6: a by-address reference is accepted, and pushed as it is, exactly when it
\* satisfies the validity rule; the first reference to fail, if by address,
\* makes resolve_symbols return the "Invalid RVA" error.
C6_ByAddress ==
    pc = "resolve_symbols_return" =>
        /\ Returned.ok =>
            /\ Len(Returned.value) = Len(symbols)
            /\ \A i \in DOMAIN symbols :
                symbols[i].kind = "Rva" =>
                    /\ ValidAddress(symbols[i].rva)
                    /\ Returned.value[i] = symbols[i].rva
        /\ \A i \in DOMAIN symbols :
            (symbols[i].kind = "Rva" /\ FirstFailure(symbols) = i) =>
                Returned = Err("Invalid RVA")
        /\ FirstFailure(symbols) = 0 => Returned.ok

\* address 3 is accepted through a "ReadWriteToCode" reject only
C6_Witness ==
    /\ pc = "resolve_symbols_return"
    /\ Returned.ok
    /\ \A i \in DOMAIN Result.functions : Result.functions[i].rva # 3
    /\ \E i \in DOMAIN symbols :
        symbols[i] = ByRva(3) /\ Returned.value[i] = 3

RECURSIVE GroupAddresses(_, _)
\* the addresses of the macro groups named `name`, in macro-list order and in
\* each group's own order
GroupAddresses(macros, name) ==
    IF macros = <<>> THEN <<>>
    ELSE (IF Head(macros).name = name THEN Head(macros).rvas ELSE <<>>)
             \o GroupAddresses(Tail(macros), name)

\* one address per configured reference of the k-th profile, in configuration
\* order
DirectAddresses(k) ==
    [i \in DOMAIN config.profiles[k].symbols |-> AddressOf(config.profiles[k].symbols[i])]

\* C7 as claimed: every submitted profile holds its directly resolved
\* addresses followed by the addresses of every macro group naming it.
C7_EveryProfileExtended ==
    submitted # <<>> =>
        /\ Len(submitted[1].profiles) = Len(config.profiles)
        /\ \A k \in DOMAIN config.profiles :
            /\ submitted[1].profiles[k].name = config.profiles[k].name
            /\ submitted[1].profiles[k].symbols =
                   DirectAddresses(k)
                       \o GroupAddresses(Result.macros, config.profiles[k].name)

\* no earlier configured profile carries the name of the k-th
FirstOfItsName(k) ==
    \A l \in DOMAIN config.profiles :
        config.profiles[l].name = config.profiles[k].name => k <= l

\* C7: every submitted profile holds its directly resolved addresses, in
\* configuration order, followed, if it is the first configured profile of its
\* name, by the addresses of every macro group naming it, in macro-list order
\* and in each group's own order; nothing is removed, reordered or
\* deduplicated. A later profile of the same name holds only its directly
\* resolved addresses.
C7_FirstProfileExtended ==
    submitted # <<>> =>
        /\ Len(submitted[1].profiles) = Len(config.profiles)
        /\ \A k \in DOMAIN config.profiles :
            /\ submitted[1].profiles[k].name = config.profiles[k].name
            /\ submitted[1].profiles[k].symbols =
                   DirectAddresses(k)
                       \o (IF FirstOfItsName(k)
                           THEN GroupAddresses(Result.macros, config.profiles[k].name)
                           ELSE <<>>)

\* two references and two macro groups make the symbols 2, 1, 2, 1, 1, 2 of
\* the first profile
C7_Witness ==
    /\ submitted # <<>>
    /\ Len(submitted[1].profiles) = 2
    /\ submitted[1].profiles[1].symbols = <<2, 1, 2, 1, 1, 2>>
    /\ Result.macros = <<[name |-> "p", rvas |-> <<2, 1>>], [name |-> "p", rvas |-> <<1, 2>>]>>

AllReferencesResolve ==
    \A k \in DOMAIN config.profiles : FirstFailure(config.profiles[k].symbols) = 0

AllMacroGroupsValid ==
    \A m \in DOMAIN Result.macros :
        /\ \E k \in DOMAIN config.profiles :
               config.profiles[k].name = Result.macros[m].name
        /\ \A j \in DOMAIN Result.macros[m].rvas :
               ValidAddress(Result.macros[m].rvas[j])

\* C8: api::defend is called, and a Config handed to it, only in a run in which
\* the analysis result arrived, every reference of every configured profile
\* resolved and every macro group named a configured profile and held only
\* valid addresses.
C8_DefendOnlyIfAllValid ==
    ("defend" \in issued \/ submitted # <<>>) =>
        /\ analysis # <<>>
        /\ AllReferencesResolve
        /\ AllMacroGroupsValid
        /\ "defend" \in issued
        /\ submitted # <<>>

\* a submission made from two profiles and two macro groups
C8_Witness ==
    /\ "defend" \in issued
    /\ Len(config.profiles) = 2
    /\ Len(Result.macros) = 2

\* C9: every address of every profile of the submitted Config satisfies the
\* validity rule against the analysis result.
C9_SubmittedAddressesValid ==
    submitted # <<>> =>
        \A k \in DOMAIN submitted[1].profiles :
            \A i \in DOMAIN submitted[1].profiles[k].symbols :
                ValidAddress(submitted[1].profiles[k].symbols[i])

\* a submitted profile with an address from a by-address reference (2, valid
\* through a reject), from a by-name reference (1) and from a macro group
C9_Witness ==
    /\ submitted # <<>>
    /\ config.profiles = <<[name |-> "q", symbols |-> <<ByRva(2), ByName("f")>>]>>
    /\ submitted[1].profiles[1].symbols = <<2, 1, 1, 2>>

\* C10: a run whose references all resolve and in which a macro group names no
\* configured profile or holds an invalid address ends in an error outcome.
C10_MacroFailureIsError ==
    (pc = "exit" /\ analysis # <<>>) =>
        ((AllReferencesResolve /\ ~AllMacroGroupsValid) => outcome \notin {"Ok", "running"})

RECURSIVE GroupAddressesUpTo(_, _, _)
\* the addresses of the first n macro groups that are named `name`
GroupAddressesUpTo(macros, n, name) ==
    IF n = 0 THEN <<>>
    ELSE GroupAddressesUpTo(macros, n - 1, name)
             \o (IF macros[n].name = name THEN macros[n].rvas ELSE <<>>)

\* C11 as claimed: while the macro groups are merged, every profile that
\* carries the name of a merged group has received the group's addresses.
C11_EveryNamesakeExtended ==
    (pc = "macros" /\ analysis # <<>>) =>
        \A k \in DOMAIN cdconfig.profiles :
            cdconfig.profiles[k].symbols =
                DirectAddresses(k)
                    \o GroupAddressesUpTo(Result.macros, macro_index - 1,
                                          cdconfig.profiles[k].name)

\* C11: while the macro groups are merged, the first configured profile of a
\* name has received the addresses of every merged group of that name, and a
\* later profile of the same name has received none.
C11_FirstNamesakeExtended ==
    (pc = "macros" /\ analysis # <<>>) =>
        \A k \in DOMAIN cdconfig.profiles :
            cdconfig.profiles[k].symbols =
                DirectAddresses(k)
                    \o (IF FirstOfItsName(k)
                        THEN GroupAddressesUpTo(Result.macros, macro_index - 1,
                                                cdconfig.profiles[k].name)
                        ELSE <<>>)

\* two profiles named "p" and a merged group named "p": the first profile
\* holds the group's addresses, the second does not
C11_Witness ==
    /\ pc = "macros"
    /\ macro_index = 2
    /\ Len(cdconfig.profiles) = 2
    /\ cdconfig.profiles[1].name = "p"
    /\ cdconfig.profiles[2].name = "p"
    /\ Result.macros[1] = [name |-> "p", rvas |-> <<2, 1>>]
    /\ cdconfig.profiles[1].symbols = DirectAddresses(1) \o <<2, 1>>
    /\ cdconfig.profiles[2].symbols = DirectAddresses(2)

\* the unit of work the polls are about
Unit == IF "defend" \in issued THEN "obfuscation" ELSE "analysis"

LastObserved == IF observed = <<>> THEN "" ELSE observed[Len(observed)]

\* C16: a poll is issued only after Processing observations; after a Ready
\* observation the next step is the download of the result; after a Failed
\* observation main has ended, without a download and without a later phase.
C16_FirstDecisiveObservationWins ==
    /\ \A i \in 1..(Len(observed) - 1) : observed[i] = "Processing"
    /\ pc \in {"analysis_download", "obfuscation_download"} <=>
           (LastObserved = "Ready" /\ pc # "exit")
    /\ (LastObserved = "Ready" /\ pc = "exit") =>
           IF Unit = "analysis"
           THEN "download_analysis_result" \in issued
           ELSE "download_obfuscated_file" \in issued
    /\ LastObserved = "Failed" =>
           /\ pc = "exit"
           /\ IF Unit = "analysis"
              THEN /\ analysis = <<>>
                   /\ cdconfig.profiles = <<>>
                   /\ issued \cap {"download_analysis_result", "defend", "download"} = {}
              ELSE "download_obfuscated_file" \notin issued

\* the obfuscated file is fetched after a Processing and a Ready observation
C16_Witness ==
    /\ Unit = "obfuscation"
    /\ observed = <<"Processing", "Ready">>
    /\ "download_obfuscated_file" \in issued

\* C17: a polling phase is left only on a Ready observation, on a Failed
\* observation or on its timeout; a timeout seen expired ends main; after the
\* timeout of the analysis phase no analysis result was downloaded, no profile
\* resolved and nothing submitted.
C17_TimeoutAborts ==
    /\ (observed # <<>> /\ pc \notin {"analysis_loop", "analysis_status", "analysis_sleep",
                                      "obfuscation_loop", "obfuscation_status",
                                      "obfuscation_sleep"}) =>
           (LastObserved \in {"Ready", "Failed"} \/ timed_out = Unit)
    /\ timed_out # "" => (pc = "exit" /\ timed_out = Unit)
    /\ timed_out = "analysis" =>
           /\ analysis = <<>>
           /\ cdconfig.profiles = <<>>
           /\ submitted = <<>>
           /\ issued \cap {"download_analysis_result", "defend", "download",
                           "download_obfuscated_file"} = {}

\* the timeout of the analysis phase is seen expired after a Processing
\* observation
C17_Witness ==
    /\ timed_out = "analysis"
    /\ observed = <<"Processing">>
    /\ pc = "exit"

\* C18: in a run on a configuration of another version than
\* YAML_CONFIG_VERSION no request is made to the remote service and main ends
\* at the version check.
C18_VersionMismatchNoRequest ==
    config.version # YAML_CONFIG_VERSION =>
        /\ issued = {}
        /\ observed = <<>>
        /\ submitted = <<>>
        /\ pc \in {"main", "exit"}

\* main has returned on a configuration of version "1.0.5"
C18_Witness ==
    /\ config.version = "1.0.5"
    /\ Len(config.profiles) = 2
    /\ pc = "exit"
    /\ outcome = "Ok"

----------------------------------------------------------------------------
(* Properties of the public pass, of parse_pdb and of the blob *)

\* C12: in the public pass only the public function declarations whose
\* address is resolvable contribute to the table: every address of the table
\* is a resolvable address that a procedure symbol or a public function symbol
\* declared (one that cannot be translated inserts and renames nothing, no
\* entry at address 0 in particular).
C12_OnlyResolvablePublic ==
    pc \in {"globals", "dedup"} => DOMAIN functions \subseteq declared

\* the addresses of the sequence parse_pdb_impl returns
FinalAddresses == {funcs[i].address : i \in DOMAIN funcs}

\* C13: the sequence parse_pdb_impl returns holds each address at most once
\* and its addresses are exactly the resolvable addresses that procedure
\* symbols or public function symbols declared (the procedure symbols' alone
\* when the public table could not be obtained).
C13_AddressesExact ==
    pc = "done" =>
        /\ \A i, j \in DOMAIN funcs : i # j => funcs[i].address # funcs[j].address
        /\ FinalAddresses = declared

\* C14: parse_pdb returns None or the blob of the complete table: when
\* PDB::open, the module iteration or the symbol iteration of a module failed,
\* it returns None.
C14_AllOrNothing ==
    pc = "parse_pdb_return" =>
        /\ compressed # <<>> => compressed[1] = encode_all(encode_to_vec(funcs))
        /\ failed => compressed = <<>>

====
